---- MODULE Spec2Model ----
(***************************************************************************)
(* FootSole BLE logger: the frame-synchronising decoder (_drain,           *)
(* _process_packet) and the append-only HDF5 store (_flush_chunk, close)   *)
(* of programs/log_velostat_sensor_h5_BLE.py.                              *)
(*                                                                         *)
(* Bytes are integers 0..255, buffers are sequences of bytes (1-based      *)
(* here, 0-based in the source), dataset rows are sequences of 209 values. *)
(* A timestamp t stands for the wall-clock reading TimeBase + t ns, where  *)
(* TimeBase = 2^60 ns: time.time_ns() lies in [2^60, 2^61) from 2006 to    *)
(* 2043, the binade in which one float64 step is 256 ns.                   *)
(***************************************************************************)
EXTENDS Integers, Sequences, FiniteSets, TLC

---------------------------------------------------------------------------
(* Program constants *)

PACKET_SIZE == 216

\* FMT = '<HBHB208BH': the number of payload bytes
PAYLOAD_LEN == 208

\* head not in (0x5AA5, 0x015A)
HEADERS == {23205, 346}

\* shape=(0, 209): the dataset's column count
COLUMNS == 209

\* & 0xFFFF
CHECKSUM_MOD == 65536

\* dtype='float64': the spacing of float64 values in [2^60, 2^61)
FLOAT64_STEP == 256

\* await asyncio.sleep(60) in run_logger of log_velostat_sensor_h5_BLE.py
SLEEP_SECONDS == 60

\* clock ticks per second: datetime.now() is finer than the "%S" of now_fname
TicksPerSecond == 2

---------------------------------------------------------------------------
(* Bounds of the model *)

\* longest run of back-to-back frames the device sends in one stream
MaxFrames == 3

\* largest number k of garbage bytes in front of a frame
MaxGarbage == 6

\* largest batch threshold chunk_rows
MaxChunkRows == 2

\* latest clock reading (ns after TimeBase) at which a session starts
MaxStart == 1

\* most rows the dataset of an existing file holds when a session opens it
MaxExisting == 2

\* largest --duration option, in seconds
MaxDuration == 2

\* latest wall-clock reading, in ticks, and the sessions run on one host
MaxClock == 3
MaxSessions == 2

---------------------------------------------------------------------------
(* Byte helpers *)

RECURSIVE SumFrom(_, _, _)
\* sum(bs[i-1 : j]) of the source: the sum of bs[i..j], added up by halves
SumFrom(bs, i, j) ==
    IF i > j THEN 0
    ELSE IF i = j THEN bs[i]
    ELSE LET m == (i + j) \div 2
         IN  SumFrom(bs, i, m) + SumFrom(bs, m + 1, j)

\* checksum16 masked to one byte (& 0xFF)
checksum16_OneByte(bs) == SumFrom(bs, 1, Len(bs)) % 256

\* def checksum16(bs): return sum(bs) & 0xFFFF
checksum16(bs) == SumFrom(bs, 1, Len(bs)) % CHECKSUM_MOD

\* little-endian unsigned 16-bit field ('H' under '<')
U16(lo, hi) == lo + 256 * hi

\* Unpack with the readings taken one byte early (from the packet-type byte)
Unpack_ValsOneEarly(pkt) ==
    [ head  |-> U16(pkt[1], pkt[2]),
      ftype |-> pkt[3],
      plen  |-> U16(pkt[4], pkt[5]),
      ptype |-> pkt[6],
      vals  |-> SubSeq(pkt, 6, 5 + PAYLOAD_LEN),
      rx    |-> U16(pkt[PACKET_SIZE - 1], pkt[PACKET_SIZE]) ]

\* struct.unpack('<HBHB208BH', pkt) -> head, ftype, plen, ptype, *vals, rx
Unpack(pkt) ==
    [ head  |-> U16(pkt[1], pkt[2]),
      ftype |-> pkt[3],
      plen  |-> U16(pkt[4], pkt[5]),
      ptype |-> pkt[6],
      vals  |-> SubSeq(pkt, 7, 6 + PAYLOAD_LEN),
      rx    |-> U16(pkt[PACKET_SIZE - 1], pkt[PACKET_SIZE]) ]

---------------------------------------------------------------------------
(* The store: np.asarray(..., dtype='float64'), _flush_chunk, close *)

\* float64 of the timestamp TimeBase + t: round to the nearest multiple of
\* FLOAT64_STEP, ties to the even multiple (TimeBase / FLOAT64_STEP is even)
Float64OfTime(t) ==
    LET q == t \div FLOAT64_STEP
        r == t % FLOAT64_STEP
        up == (2 * r > FLOAT64_STEP) \/ (2 * r = FLOAT64_STEP /\ q % 2 = 1)
    IN  FLOAT64_STEP * (IF up THEN q + 1 ELSE q)

\* float64 of a payload byte: every integer below 2^53 is kept exactly
Float64OfByte(v) == v

\* one row [ts] + vals of self.chunk as a float64 row
AsFloat64Row(row) ==
    [j \in 1..Len(row) |-> IF j = 1 THEN Float64OfTime(row[1]) ELSE Float64OfByte(row[j])]

\* a = np.asarray(self.chunk, dtype='float64')
AsArray(chunk) == [i \in 1..Len(chunk) |-> AsFloat64Row(chunk[i])]

\* a resize that does not keep the rows the dataset held
Resize_Fresh(ds, n, cols) ==
    [i \in 1..n |-> [j \in 1..cols |-> 0]]

\* self.ds.resize(n, axis=0) on a dataset of cols columns: new rows hold the
\* fill value 0.0
Resize(ds, n, cols) ==
    [i \in 1..n |-> IF i <= Len(ds) THEN ds[i] ELSE [j \in 1..cols |-> 0]]

\* self.ds[n0:] = a
AssignFrom(ds, n0, a) ==
    [i \in 1..Len(ds) |-> IF i > n0 THEN a[i - n0] ELSE ds[i]]

\* one entry of the log st.flushes of _flush_chunk calls: the dataset before,
\* the batch, the dataset after, the batch left pending, whether the file was
\* open, and whether the call raised
FlushEntry(st, after, left, raised) ==
    [before |-> st.ds, batch |-> st.chunk, after |-> after, left |-> left,
     open |-> st.h5_open, raised |-> raised]

\* the outcome of a _flush_chunk call: the dataset, the pending batch and
\* whether the call raised
Flushed(st, after, left, raised) ==
    [st EXCEPT !.ds = after,
               !.chunk = left,
               !.raised = raised,
               !.flushes = Append(@, FlushEntry(st, after, left, raised))]

\* self.ds[n0:] = a raises when a's 209 columns do not fit the dataset's
WriteFits(st) == st.ds_cols = COLUMNS

\* _flush_chunk that writes the batch at the top of the dataset (self.ds[:b] = a)
FlushChunk_WriteAtTop(st) ==
    IF st.chunk = <<>> THEN Flushed(st, st.ds, st.chunk, FALSE)
    ELSE IF ~st.h5_open \/ st.fault = "resize" THEN Flushed(st, st.ds, st.chunk, TRUE)
    ELSE LET a  == AsArray(st.chunk)
             n0 == Len(st.ds)
             r  == Resize(st.ds, n0 + Len(a), st.ds_cols)
             ds1 == [i \in 1..Len(r) |-> IF i <= Len(a) THEN a[i] ELSE r[i]]
         IN  IF st.fault = "write" \/ ~WriteFits(st) THEN Flushed(st, r, st.chunk, TRUE)
             ELSE Flushed(st, ds1, <<>>, st.fault = "sync")

\* def _flush_chunk(self). st.fault is the step at which the HDF5 file
\* currently fails: "resize" (line 57), "write" (line 58), "sync" (line 60,
\* after self.chunk.clear()) or "none"; a closed file fails at line 56
FlushChunk(st) ==
    IF st.chunk = <<>> THEN Flushed(st, st.ds, st.chunk, FALSE)
    ELSE IF ~st.h5_open \/ st.fault = "resize" THEN Flushed(st, st.ds, st.chunk, TRUE)
    ELSE LET a  == AsArray(st.chunk)
             n0 == Len(st.ds)
             r  == Resize(st.ds, n0 + Len(a), st.ds_cols)
             ds1 == AssignFrom(r, n0, a)
         IN  IF st.fault = "write" \/ ~WriteFits(st) THEN Flushed(st, r, st.chunk, TRUE)
             ELSE Flushed(st, ds1, <<>>, st.fault = "sync")

---------------------------------------------------------------------------
(* The decoder: _process_packet, _drain, on_notify *)

\* _process_packet without the header test
ProcessPacket_AnyHeader(st, pkt) ==
    LET u == Unpack(pkt)
    IN  IF u.plen # PACKET_SIZE
        THEN [ok |-> FALSE, why |-> "length", st |-> st]
        ELSE IF checksum16(SubSeq(pkt, 1, PACKET_SIZE - 2)) # u.rx
             THEN [ok |-> FALSE, why |-> "checksum", st |-> st]
        ELSE LET ts  == st.now
                 row == <<ts>> \o u.vals
                 s1  == [st EXCEPT !.now = ts + 1,
                                   !.chunk = Append(@, row),
                                   !.emitted = Append(@, row)]
             IN  [ok |-> TRUE, why |-> "ok",
                  st |-> IF Len(s1.chunk) >= s1.chunk_rows THEN FlushChunk(s1) ELSE s1]

\* def _process_packet(self, pkt) -> bool; the result is [ok, why, st], why
\* being the test whose "[SYNC] Bad ..." line was printed (lines 72, 81, 84).
\* time.time_ns() returns the clock reading st.now, and the clock has moved
\* on by the next reading
ProcessPacket(st, pkt) ==
    LET head == pkt[1] + 256 * pkt[2]
        u == Unpack(pkt)
    IN  IF head \notin HEADERS
        THEN [ok |-> FALSE, why |-> "header", st |-> st]
        ELSE IF u.plen # PACKET_SIZE
        THEN [ok |-> FALSE, why |-> "length", st |-> st]
        ELSE IF checksum16(SubSeq(pkt, 1, PACKET_SIZE - 2)) # u.rx
             THEN [ok |-> FALSE, why |-> "checksum", st |-> st]
        ELSE LET ts  == st.now
                 row == <<ts>> \o u.vals
                 s1  == [st EXCEPT !.now = ts + 1,
                                   !.chunk = Append(@, row),
                                   !.emitted = Append(@, row)]
             IN  [ok |-> TRUE, why |-> "ok",
                  st |-> IF Len(s1.chunk) >= s1.chunk_rows THEN FlushChunk(s1) ELSE s1]

\* a rejected window answered by self.buffer.clear() instead of pop(0)
PopOne_ClearAll(st, off, why) ==
    [st EXCEPT !.buffer = <<>>,
               !.sync_errors = @ + 1,
               !.events = Append(@, [off |-> off, ok |-> FALSE, why |-> why,
                                     n |-> Len(st.emitted)])]

\* a rejected window that is counted and left in the buffer
PopOne_Peek(st, off, why) ==
    [st EXCEPT !.sync_errors = @ + 1,
               !.events = Append(@, [off |-> off, ok |-> FALSE, why |-> why,
                                     n |-> Len(st.emitted)])]

\* self.buffer.pop(0); sync_errors += 1
PopOne(st, off, why) ==
    [st EXCEPT !.buffer = Tail(@),
               !.sync_errors = @ + 1,
               !.events = Append(@, [off |-> off, ok |-> FALSE, why |-> why,
                                     n |-> Len(st.emitted)])]

\* _drain whose "Bad packet" branch drops the whole window, not one byte
DrainIter_DropWindow(st) ==
    LET off == st.len0 - Len(st.buffer)
        pkt == SubSeq(st.buffer, 1, PACKET_SIZE)
        u == Unpack(pkt)
        cksum == checksum16(SubSeq(pkt, 1, PACKET_SIZE - 2))
    IN  IF u.plen # PACKET_SIZE \/ cksum # u.rx
        THEN PopOne(st, off, "skipped")
        ELSE LET r == ProcessPacket(st, pkt)
             IN  IF r.st.raised THEN r.st
                 ELSE [r.st EXCEPT !.buffer = SubSeq(@, PACKET_SIZE + 1, Len(@)),
                                   !.sync_errors = IF r.ok THEN @ ELSE @ + 1,
                                   !.events =
                                       Append(@, [off |-> off, ok |-> r.ok,
                                                  why |-> r.why,
                                                  n |-> Len(r.st.emitted)])]

\* one iteration of the while loop of _drain. Each iteration is logged in
\* st.events: off, the number of bytes this call had removed from the buffer
\* when the iteration began; ok, whether the window was accepted; why, the
\* test that rejected it ("skipped" is the test of line 106, which prints
\* "[SYNC] Skipped packet"); n, the number of samples this call has produced
\* when the iteration ends. An
\* exception out of _process_packet (line 111) leaves _drain at once
DrainIter(st) ==
    LET off == st.len0 - Len(st.buffer)
        pkt == SubSeq(st.buffer, 1, PACKET_SIZE)
        u == Unpack(pkt)
        cksum == checksum16(SubSeq(pkt, 1, PACKET_SIZE - 2))
    IN  IF u.plen # PACKET_SIZE \/ cksum # u.rx
        THEN PopOne(st, off, "skipped")
        ELSE LET r == ProcessPacket(st, pkt)
             IN  IF r.st.raised THEN r.st
                 ELSE IF r.ok
                 THEN [r.st EXCEPT !.buffer = SubSeq(@, PACKET_SIZE + 1, Len(@)),
                                   !.events =
                                       Append(@, [off |-> off, ok |-> TRUE,
                                                  why |-> "ok",
                                                  n |-> Len(r.st.emitted)])]
                 ELSE PopOne(r.st, off, r.why)

\* the loop test and body: the state after one more pass of the while loop,
\* or the same state once the loop has ended or an exception has left it
DrainPass(st) ==
    IF ~st.raised /\ Len(st.buffer) >= PACKET_SIZE THEN DrainIter(st) ELSE st

RECURSIVE DrainPasses(_, _)
\* n passes in a row (run as two halves)
DrainPasses(st, n) ==
    IF n = 0 THEN st
    ELSE IF n = 1 THEN DrainPass(st)
    ELSE LET h == n \div 2
             mid == DrainPasses(st, h)
         IN  IF ~mid.raised /\ Len(mid.buffer) >= PACKET_SIZE
             THEN DrainPasses(mid, n - h)
             ELSE mid

\* "if" in place of "while": at most one window is examined per call
DrainLoop_OnePass(st) == DrainPass(st)

\* while len(self.buffer) >= PACKET_SIZE: ...  Every iteration removes at
\* least one byte, so the loop has ended after len(self.buffer) passes
DrainLoop(st) == DrainPasses(st, Len(st.buffer))

\* sync_errors = 0, line 95
DrainStart(st) == [st EXCEPT !.sync_errors = 0]

\* the trailing-bytes rule, lines 117-120 (not reached when the loop raised);
\* st.leftover keeps the buffer as the loop left it
Trailing(st) ==
    LET s2 == [st EXCEPT !.leftover = st.buffer]
    IN  IF ~s2.raised /\ Len(s2.buffer) > 0 /\ Len(s2.buffer) < PACKET_SIZE
        THEN [s2 EXCEPT !.buffer = <<>>]
        ELSE s2

\* def _drain(self): the loop, then the trailing-bytes rule
Drain(st) == Trailing(DrainLoop(DrainStart(st)))

\* self.buffer.extend(data), line 128; the log of the previous call is reset
Extended(st, data) ==
    LET b == st.buffer \o data
    IN  [st EXCEPT !.buffer = b,
                   !.raised = FALSE,
                   !.len0 = Len(b),
                   !.lastBuf = b,
                   !.events = <<>>,
                   !.emitted = <<>>,
                   !.flushes = <<>>]

\* def on_notify(self, _h, data)
OnNotify(st, data) == Drain(Extended(st, data))

\* a close that releases the file before the final flush
CloseLogger_CloseFirst(st) ==
    FlushChunk([st EXCEPT !.flushes = <<>>, !.events = <<>>, !.emitted = <<>>,
                          !.lastBuf = <<>>, !.len0 = 0, !.leftover = st.buffer,
                          !.sync_errors = 0, !.raised = FALSE,
                          !.h5_open = FALSE])

\* try: self._flush_chunk(), line 64; the log of the previous call is reset
FinalFlush(st) ==
    FlushChunk([st EXCEPT !.flushes = <<>>, !.events = <<>>, !.emitted = <<>>,
                          !.lastBuf = <<>>, !.len0 = 0, !.leftover = st.buffer,
                          !.sync_errors = 0, !.raised = FALSE])

\* finally: self.h5.close(), line 65
Release(st) == [st EXCEPT !.h5_open = FALSE]

\* def close(self): try: self._flush_chunk() finally: self.h5.close()
CloseLogger(st) == Release(FinalFlush(st))

\* an __init__ that opens the file with mode "w": the old dataset is lost
OpenLogger_Truncate(old, cols, rows, start) ==
    [ buffer |-> <<>>, chunk |-> <<>>, chunk_rows |-> rows,
      ds |-> <<>>, ds_cols |-> COLUMNS,
      h5_open |-> TRUE, now |-> start, fault |-> "none", raised |-> FALSE,
      len0 |-> 0, lastBuf |-> <<>>, leftover |-> <<>>, sync_errors |-> 0,
      events |-> <<>>, emitted |-> <<>>, flushes |-> <<>> ]

\* def __init__(self, ..., chunk_rows) on a file that holds the dataset rows
\* old of cols columns (side in self.h5), or no dataset when cols = 0
OpenLogger(old, cols, rows, start) ==
    [ buffer |-> <<>>, chunk |-> <<>>, chunk_rows |-> rows,
      ds |-> IF cols = 0 THEN <<>> ELSE old,
      ds_cols |-> IF cols = 0 THEN COLUMNS ELSE cols,
      h5_open |-> TRUE, now |-> start, fault |-> "none", raised |-> FALSE,
      len0 |-> 0, lastBuf |-> <<>>, leftover |-> <<>>, sync_errors |-> 0,
      events |-> <<>>, emitted |-> <<>>, flushes |-> <<>> ]

\* def __init__(self, ..., chunk_rows): a new file with a zero-row dataset
NewLogger(rows, start) == OpenLogger(<<>>, 0, rows, start)

---------------------------------------------------------------------------
(* The copy of the class in combined_sensor_logger_viz.py, lines 34-133;
   the line numbers in this section are those of that file *)

\* PACKET_SIZE, FMT, the dataset shape and the checksum mask of the copy
VIZ_PACKET_SIZE == 216
VIZ_PAYLOAD_LEN == 208
VIZ_COLUMNS == 209
VIZ_CHECKSUM_MOD == 65536
VIZ_HEADERS == {23205, 346}

\* def checksum16(bs): return sum(bs) & 0xFFFF
Vizchecksum16(bs) == SumFrom(bs, 1, Len(bs)) % VIZ_CHECKSUM_MOD

\* struct.unpack('<HBHB208BH', pkt) -> head, ftype, plen, ptype, *vals, rx
VizUnpack(pkt) ==
    [ head  |-> U16(pkt[1], pkt[2]),
      ftype |-> pkt[3],
      plen  |-> U16(pkt[4], pkt[5]),
      ptype |-> pkt[6],
      vals  |-> SubSeq(pkt, 7, 6 + VIZ_PAYLOAD_LEN),
      rx    |-> U16(pkt[VIZ_PACKET_SIZE - 1], pkt[VIZ_PACKET_SIZE]) ]

\* one entry of the log st.flushes of _flush_chunk calls: the dataset before,
\* the batch, the dataset after, the batch left pending, whether the file was
\* open, and whether the call raised
VizFlushEntry(st, after, left, raised) ==
    [before |-> st.ds, batch |-> st.chunk, after |-> after, left |-> left,
     open |-> st.h5_open, raised |-> raised]

\* the outcome of a _flush_chunk call: the dataset, the pending batch and
\* whether the call raised
VizFlushed(st, after, left, raised) ==
    [st EXCEPT !.ds = after,
               !.chunk = left,
               !.raised = raised,
               !.flushes = Append(@, VizFlushEntry(st, after, left, raised))]

\* self.ds[n0:] = a raises when a's 209 columns do not fit the dataset's
VizWriteFits(st) == st.ds_cols = VIZ_COLUMNS

\* def _flush_chunk(self). st.fault is the step at which the HDF5 file
\* currently fails: "resize" (line 65), "write" (line 66), "sync" (line 68,
\* after self.chunk.clear()) or "none"; a closed file fails at line 64
VizFlushChunk(st) ==
    IF st.chunk = <<>> THEN VizFlushed(st, st.ds, st.chunk, FALSE)
    ELSE IF ~st.h5_open \/ st.fault = "resize" THEN VizFlushed(st, st.ds, st.chunk, TRUE)
    ELSE LET a  == AsArray(st.chunk)
             n0 == Len(st.ds)
             r  == Resize(st.ds, n0 + Len(a), st.ds_cols)
             ds1 == AssignFrom(r, n0, a)
         IN  IF st.fault = "write" \/ ~VizWriteFits(st) THEN VizFlushed(st, r, st.chunk, TRUE)
             ELSE VizFlushed(st, ds1, <<>>, st.fault = "sync")

\* def _process_packet(self, pkt) -> bool; the result is [ok, why, st], why
\* being the test whose "[SYNC] Bad ..." line was printed (lines 78, 87, 90).
\* time.time_ns() returns the clock reading st.now, and the clock has moved
\* on by the next reading
VizProcessPacket(st, pkt) ==
    LET head == pkt[1] + 256 * pkt[2]
        u == VizUnpack(pkt)
    IN  IF head \notin VIZ_HEADERS
        THEN [ok |-> FALSE, why |-> "header", st |-> st]
        ELSE IF u.plen # VIZ_PACKET_SIZE
        THEN [ok |-> FALSE, why |-> "length", st |-> st]
        ELSE IF Vizchecksum16(SubSeq(pkt, 1, VIZ_PACKET_SIZE - 2)) # u.rx
             THEN [ok |-> FALSE, why |-> "checksum", st |-> st]
        ELSE LET ts  == st.now
                 row == <<ts>> \o u.vals
                 s1  == [st EXCEPT !.now = ts + 1,
                                   !.chunk = Append(@, row),
                                   !.emitted = Append(@, row)]
             IN  [ok |-> TRUE, why |-> "ok",
                  st |-> IF Len(s1.chunk) >= s1.chunk_rows THEN VizFlushChunk(s1) ELSE s1]

\* self.buffer.pop(0); sync_errors += 1
VizPopOne(st, off, why) ==
    [st EXCEPT !.buffer = Tail(@),
               !.sync_errors = @ + 1,
               !.events = Append(@, [off |-> off, ok |-> FALSE, why |-> why,
                                     n |-> Len(st.emitted)])]

\* one iteration of the while loop of _drain. Each iteration is logged in
\* st.events: off, the number of bytes this call had removed from the buffer
\* when the iteration began; ok, whether the window was accepted; why, the
\* test that rejected it ("skipped" is the test of line 111, which prints
\* "[SYNC] Skipped packet"); n, the number of samples this call has produced
\* when the iteration ends. An
\* exception out of _process_packet (line 116) leaves _drain at once
VizDrainIter(st) ==
    LET off == st.len0 - Len(st.buffer)
        pkt == SubSeq(st.buffer, 1, VIZ_PACKET_SIZE)
        u == VizUnpack(pkt)
        cksum == Vizchecksum16(SubSeq(pkt, 1, VIZ_PACKET_SIZE - 2))
    IN  IF u.plen # VIZ_PACKET_SIZE \/ cksum # u.rx
        THEN VizPopOne(st, off, "skipped")
        ELSE LET r == VizProcessPacket(st, pkt)
             IN  IF r.st.raised THEN r.st
                 ELSE IF r.ok
                 THEN [r.st EXCEPT !.buffer = SubSeq(@, VIZ_PACKET_SIZE + 1, Len(@)),
                                   !.events =
                                       Append(@, [off |-> off, ok |-> TRUE,
                                                  why |-> "ok",
                                                  n |-> Len(r.st.emitted)])]
                 ELSE VizPopOne(r.st, off, r.why)

\* the loop test and body: the state after one more pass of the while loop,
\* or the same state once the loop has ended or an exception has left it
VizDrainPass(st) ==
    IF ~st.raised /\ Len(st.buffer) >= VIZ_PACKET_SIZE THEN VizDrainIter(st) ELSE st

RECURSIVE VizDrainPasses(_, _)
\* n passes in a row (run as two halves)
VizDrainPasses(st, n) ==
    IF n = 0 THEN st
    ELSE IF n = 1 THEN VizDrainPass(st)
    ELSE LET h == n \div 2
             mid == VizDrainPasses(st, h)
         IN  IF ~mid.raised /\ Len(mid.buffer) >= VIZ_PACKET_SIZE
             THEN VizDrainPasses(mid, n - h)
             ELSE mid

\* while len(self.buffer) >= PACKET_SIZE: ...  Every iteration removes at
\* least one byte, so the loop has ended after len(self.buffer) passes
VizDrainLoop(st) == VizDrainPasses(st, Len(st.buffer))

\* sync_errors = 0, line 100
VizDrainStart(st) == [st EXCEPT !.sync_errors = 0]

\* the trailing-bytes rule, lines 122-125 (not reached when the loop raised);
\* st.leftover keeps the buffer as the loop left it
VizTrailing(st) ==
    LET s2 == [st EXCEPT !.leftover = st.buffer]
    IN  IF ~s2.raised /\ Len(s2.buffer) > 0 /\ Len(s2.buffer) < VIZ_PACKET_SIZE
        THEN [s2 EXCEPT !.buffer = <<>>]
        ELSE s2

\* def _drain(self): the loop, then the trailing-bytes rule
VizDrain(st) == VizTrailing(VizDrainLoop(VizDrainStart(st)))

\* self.buffer.extend(data), line 132; the log of the previous call is reset
VizExtended(st, data) ==
    LET b == st.buffer \o data
    IN  [st EXCEPT !.buffer = b,
                   !.raised = FALSE,
                   !.len0 = Len(b),
                   !.lastBuf = b,
                   !.events = <<>>,
                   !.emitted = <<>>,
                   !.flushes = <<>>]

\* def on_notify(self, _h, data)
VizOnNotify(st, data) == VizDrain(VizExtended(st, data))

\* try: self._flush_chunk(), line 71; the log of the previous call is reset
VizFinalFlush(st) ==
    VizFlushChunk([st EXCEPT !.flushes = <<>>, !.events = <<>>, !.emitted = <<>>,
                          !.lastBuf = <<>>, !.len0 = 0, !.leftover = st.buffer,
                          !.sync_errors = 0, !.raised = FALSE])

\* finally: self.h5.close(), line 72
VizRelease(st) == [st EXCEPT !.h5_open = FALSE]

\* def close(self): try: self._flush_chunk() finally: self.h5.close()
VizCloseLogger(st) == VizRelease(VizFinalFlush(st))

\* def __init__(self, ..., chunk_rows) on a file that holds the dataset rows
\* old of cols columns (side in self.h5), or no dataset when cols = 0
VizOpenLogger(old, cols, rows, start) ==
    [ buffer |-> <<>>, chunk |-> <<>>, chunk_rows |-> rows,
      ds |-> IF cols = 0 THEN <<>> ELSE old,
      ds_cols |-> IF cols = 0 THEN VIZ_COLUMNS ELSE cols,
      h5_open |-> TRUE, now |-> start, fault |-> "none", raised |-> FALSE,
      len0 |-> 0, lastBuf |-> <<>>, leftover |-> <<>>, sync_errors |-> 0,
      events |-> <<>>, emitted |-> <<>>, flushes |-> <<>> ]

\* def __init__(self, ..., chunk_rows): a new file with a zero-row dataset
VizNewLogger(rows, start) == VizOpenLogger(<<>>, 0, rows, start)

---------------------------------------------------------------------------
(* The device: the frames and byte streams it sends over the UART service *)

\* the low and the high byte of an unsigned 16-bit value, little-endian
Lo(x) == x % 256
Hi(x) == (x \div 256) % 256

\* a 216-byte window laid out as FMT: head, u8, len, u8, 208B, checksum,
\* whose checksum field is the byte sum of the first 214 bytes plus skew
RawFrame(head, ftype, plen, ptype, vals, skew) ==
    LET body == <<Lo(head), Hi(head), ftype, Lo(plen), Hi(plen), ptype>> \o vals
        ck == (SumFrom(body, 1, Len(body)) + skew) % CHECKSUM_MOD
    IN  body \o <<Lo(ck), Hi(ck)>>

\* a frame as the device builds it: length 216 and the matching checksum
MakeFrame(head, ftype, ptype, vals) ==
    RawFrame(head, ftype, PACKET_SIZE, ptype, vals, 0)

\* 208 sensor readings; the readings differ from column to column
Payload(seed) == [i \in 1..PAYLOAD_LEN |-> (seed * i + 11 * seed) % 256]

FrameA == MakeFrame(23205, 1, 2, Payload(3))
FrameB == MakeFrame(346, 0, 0, Payload(7))
FrameC == MakeFrame(23205, 255, 9, Payload(250))

\* the i-th frame (i >= 0) of a run that starts with frame number first
FrameAt(first, i) ==
    LET n == (first + i) % 3
    IN  IF n = 0 THEN FrameA ELSE IF n = 1 THEN FrameB ELSE FrameC

RECURSIVE FrameRun(_, _)
\* n back-to-back valid frames
FrameRun(first, n) ==
    IF n = 0 THEN <<>> ELSE FrameRun(first, n - 1) \o FrameAt(first, n - 1)

\* frame f with payload byte i (1..208) changed, the checksum field left as is
Corrupt(f, i) == [f EXCEPT ![6 + i] = (@ + 1) % 256]

\* k bytes that are no frame: zeros, a ramp, or the start of a lost frame
Garbage(kind, k) ==
    [i \in 1..k |-> IF kind = "zero" THEN 0
                    ELSE IF kind = "ramp" THEN (37 * i + 200) % 256
                    ELSE FrameB[((i - 1) % PACKET_SIZE) + 1]]

GarbageKinds == {"zero", "ramp", "lost"}

\* windows that fail exactly one test of the validation
BadHeaderFrame == RawFrame(4660, 1, PACKET_SIZE, 2, Payload(5), 0)
BadLengthFrame == RawFrame(23205, 1, PACKET_SIZE - 1, 2, Payload(5), 0)
BadChecksumFrame == RawFrame(346, 1, PACKET_SIZE, 2, Payload(5), 1)

\* five bytes that open a frame, then a frame whose readings 204 and 205
\* happen to equal the byte sum of the 214 bytes that start at those five
StaleStart == <<165, 90, 0, 216, 0>>
EchoPayload ==
    [i \in 1..PAYLOAD_LEN |-> IF i = 204 THEN 174 ELSE IF i = 205 THEN 3 ELSE 0]
EchoFrame == MakeFrame(23205, 0, 0, EchoPayload)

Streams ==
    {FrameRun(first, n) : first \in 0..1, n \in 1..MaxFrames}
    \cup {Garbage(kind, k) \o FrameA : kind \in GarbageKinds, k \in 1..MaxGarbage}
    \cup {Garbage("zero", 5) \o FrameA \o Corrupt(FrameA, i) \o FrameB : i \in {1, 208}}
    \cup {Garbage("zero", 5) \o FrameB \o Corrupt(FrameB, 100) \o FrameC}
    \cup {BadHeaderFrame \o BadLengthFrame \o BadChecksumFrame \o FrameC}
    \cup {StaleStart \o EchoFrame}

\* notification sizes: the default ATT payload of 20 bytes, one frame, and the
\* largest BLE notification of 244 bytes; "all" is whatever is left to send
ChunkSizes == {20, PACKET_SIZE, 244}

---------------------------------------------------------------------------
(* The session *)

\* side = "sensor_left" if use_left else "sensor_right"
Sides == {"sensor_left", "sensor_right"}

\* def now_fname(side) at clock reading t (in ticks): the name holds the side
\* and the local time down to the second (strftime "%Y-%m-%d-%H-%M-%S")
now_fname(side, t) == [side |-> side, second |-> t \div TicksPerSecond]

\* run_logger as the two programs define it: await asyncio.sleep(60) in
\* log_velostat_sensor_h5_BLE.py, await asyncio.sleep(duration) in
\* combined_sensor_logger_viz.py
Variants == {"standalone", "combined"}

\* the state of one run_logger call besides its logger: the --duration option,
\* the seconds slept so far, the link, and what has happened so far
NewSession(variant, duration) ==
    [ variant |-> variant, duration |-> duration, elapsed |-> 0,
      connected |-> FALSE, subscribed |-> FALSE,
      began |-> FALSE,      \* start_notify has returned: logging has begun
      cancelled |-> FALSE,  \* a CancelledError was thrown into run_logger
      failed |-> FALSE,     \* an exception is on its way out of the try block
      closes |-> 0,         \* how many times logger.close() has been called
      raised |-> FALSE,     \* an on_notify call has raised into the transport
      after |-> FALSE,      \* on_notify has been called again after that
      waited |-> FALSE,     \* the sleep went on after the link was lost
      left |-> -1,          \* the seconds slept when the sleep returned
      late |-> FALSE,       \* on_notify has been called on the closed logger
      dropped |-> 0,        \* bytes removed one at a time by pop(0), in all
      cleared |-> 0,        \* trailing bytes removed by buffer.clear(), in all
      outcome |-> "none",   \* how run_logger ended: "returned" | "raised"
      id |-> 0,             \* which session of the host this is (0: none yet)
      path |-> now_fname("sensor_right", 0) ]  \* logger.h5_path

\* the session once start_notify has subscribed logger.on_notify
Subscribed(s) ==
    [s EXCEPT !.connected = TRUE, !.subscribed = TRUE, !.began = TRUE]

\* where run_logger is while the subscription can deliver notifications: in
\* the sleep, and in the disconnect that ends the async with block
Listening == {"logging", "leaving"}

\* the session after an on_notify call that left the logger in state st
Noted(s, st) ==
    [s EXCEPT !.raised = @ \/ st.raised,
              !.after = @ \/ s.raised,
              !.late = @ \/ ~st.h5_open,
              !.dropped = @ + st.sync_errors,
              !.cleared = @ + Len(st.leftover) - Len(st.buffer)]

\* the content of the file self.h5_path before the session: the dataset's
\* rows and column count, cols = 0 when the file holds no dataset
NoFile == [rows |-> <<>>, cols |-> 0]

\* r rows of c columns left by an earlier session, older than this one
ExistingRows(r, c) ==
    [i \in 1..r |->
        [j \in 1..c |-> IF j = 1 THEN (i - r - 1) * FLOAT64_STEP
                        ELSE (i + j) % 256]]

Files ==
    {NoFile}
    \cup {[rows |-> ExistingRows(r, c), cols |-> c] :
              r \in 0..MaxExisting, c \in {COLUMNS, COLUMNS - 1}}

\* the event loop of asyncio.run: the notifications the transport has handed
\* over and the loop has not dispatched yet, the calls of on_notify and close
\* that have begun and not returned, how many on_notify calls have begun and
\* returned, and expect[k + 1], the logger as it is when the first k
\* notifications received have each been processed in one piece, in order
NewLoop(st) ==
    [ queue |-> <<>>, running |-> {}, begun |-> 0, ended |-> 0,
      expect |-> <<st>> ]

\* a loop that hands out the next callback while another is in progress
LoopIdle_Always(l) == TRUE

\* the loop takes its next callback when the one it called has returned;
\* on_notify and close are plain functions without an await, so they return
\* only when they are done
LoopIdle(l) == l.running = {}

\* the names now_fname can give within the clock readings looked at
Paths == {now_fname(side, t) : side \in Sides, t \in 0..MaxClock}

\* the working directory before any session: no file under any name. Each
\* file is kept as its dataset (rows, cols as in NoFile) and the sessions
\* that have appended rows to it
NewHost ==
    [ clock |-> 0,
      files |-> [p \in Paths |-> [rows |-> <<>>, cols |-> 0, writers |-> {}]] ]

VARIABLES
    stream,     \* the bytes the device sends during the session
    pos,        \* how many of them have been delivered to on_notify
    logger,     \* the FootSoleBLELogger object (and the log of its last call)
    samples,    \* every row [ts] + vals the decoder has appended so far
    pc,         \* where run_logger is: "scanning" | "absent" | "connecting" |
                \* "subscribing" | "logging" | "leaving" | "closing" | "closed"
    file,       \* the content of the HDF5 file when the logger opened it
    sess,       \* the rest of the run_logger call (NewSession)
    loop,       \* the event loop's callbacks, waiting and in progress (NewLoop)
    host,       \* the wall clock and the files of the working directory
    twin        \* a logger of the class as copied into
                \* combined_sensor_logger_viz.py, fed what logger is fed

vars == <<stream, pos, logger, samples, pc, file, sess, loop, host, twin>>

Init ==
    /\ stream \in Streams
    /\ pos = 0
    /\ \E rows \in 1..MaxChunkRows, start \in 0..MaxStart :
           logger = NewLogger(rows, start)
    /\ samples = <<>>
    /\ pc = "logging"
    /\ file = NoFile
    /\ sess = Subscribed(NewSession("standalone", SLEEP_SECONDS))
    /\ loop = NewLoop(logger)
    /\ host = NewHost
    /\ twin = logger

\* a transport that goes on calling on_notify once start_notify has returned,
\* wherever run_logger is
Delivers_Anytime(p, s) == s.began

\* whether the transport can call on_notify: run_logger is suspended inside
\* the client context, the link is up and start_notify has subscribed
Delivers(p, s) == p \in Listening /\ s.connected /\ s.subscribed

\* the transport delivers the next n bytes of the stream to on_notify
Notify(n) ==
    /\ Delivers(pc, sess)
    /\ n >= 1
    /\ pos + n <= Len(stream)
    /\ logger' = OnNotify(logger, SubSeq(stream, pos + 1, pos + n))
    /\ samples' = samples \o logger'.emitted
    /\ pos' = pos + n
    /\ sess' = Noted(sess, logger')
    /\ UNCHANGED <<stream, pc, file, loop, host, twin>>

\* the finally clause of run_logger: logger.close()
Close ==
    /\ pc = "logging"
    /\ logger' = CloseLogger(logger)
    /\ pc' = "closed"
    /\ sess' = [sess EXCEPT !.closes = @ + 1]
    /\ UNCHANGED <<stream, pos, samples, file, loop, host, twin>>

Next ==
    \/ \E n \in ChunkSizes \cup {Len(stream) - pos} : Notify(n)
    \/ Close

Spec == Init /\ [][Next]_vars

---------------------------------------------------------------------------
(* The store under I/O failures and on files that already hold a dataset *)

\* whole frames, and one run behind bytes that are no frame
StoreStreams ==
    {FrameRun(0, n) : n \in 1..MaxFrames}
    \cup {Garbage("ramp", 3) \o FrameRun(1, 2)}

\* the steps of _flush_chunk at which the HDF5 library can fail
FaultSteps == {"resize", "write", "sync"}

InitStore ==
    /\ stream \in StoreStreams
    /\ pos = 0
    /\ file \in Files
    /\ \E rows \in 1..MaxChunkRows :
           logger = OpenLogger(file.rows, file.cols, rows, 0)
    /\ samples = <<>>
    /\ pc = "logging"
    /\ sess = Subscribed(NewSession("standalone", SLEEP_SECONDS))
    /\ loop = NewLoop(logger)
    /\ host = NewHost
    /\ twin = logger

\* the disk or the HDF5 library starts to fail at one step of _flush_chunk
Break(step) ==
    /\ pc = "logging"
    /\ logger.fault = "none"
    /\ logger' = [logger EXCEPT !.fault = step]
    /\ UNCHANGED <<stream, pos, samples, pc, file, sess, loop, host, twin>>

\* the failure goes away
Heal ==
    /\ pc = "logging"
    /\ logger.fault # "none"
    /\ logger' = [logger EXCEPT !.fault = "none"]
    /\ UNCHANGED <<stream, pos, samples, pc, file, sess, loop, host, twin>>

NextStore ==
    \/ \E n \in {PACKET_SIZE, Len(stream) - pos} : Notify(n)
    \/ Close
    \/ \E step \in FaultSteps : Break(step)
    \/ Heal

SpecStore == InitStore /\ [][NextStore]_vars

---------------------------------------------------------------------------
(* run_logger from the scan to the finally clause *)

\* the seconds run_logger sleeps for: 60 whatever --duration says in
\* log_velostat_sensor_h5_BLE.py, duration in combined_sensor_logger_viz.py
SleepFor(s) == IF s.variant = "standalone" THEN SLEEP_SECONDS ELSE s.duration

\* a run_logger whose finally clause is missed when the connect raises
Unwind_SkipFinally(at) ==
    IF at \in {"subscribing", "logging"} THEN "leaving" ELSE "closed"

\* where run_logger goes when the await it is at raises (a failed connect or
\* subscribe, a CancelledError): out of BleakClient(dev) through its
\* __aexit__ once the client is entered, and always to the finally clause
Unwind(at) ==
    IF at \in {"subscribing", "logging"} THEN "leaving" ELSE "closing"

\* the logger variable before FootSoleBLELogger(...) has run
NoLogger == [NewLogger(1, 0) EXCEPT !.h5_open = FALSE]

SessionStreams == {FrameRun(0, 2), Garbage("zero", 4) \o FrameC}

InitSession ==
    /\ stream \in SessionStreams
    /\ pos = 0
    /\ file = NoFile
    /\ logger = NoLogger
    /\ samples = <<>>
    /\ pc = "scanning"
    /\ \E v \in Variants, d \in 0..MaxDuration : sess = NewSession(v, d)
    /\ loop = NewLoop(logger)
    /\ host = NewHost
    /\ twin = logger

\* find_device_by_filter returns; with a device, the logger opens its file
Scan(found) ==
    /\ pc = "scanning"
    /\ pc' = IF found THEN "connecting" ELSE "absent"
    /\ logger' = IF found THEN NewLogger(1, 0) ELSE logger
    /\ UNCHANGED <<stream, pos, samples, file, sess, loop, host, twin>>

\* async with BleakClient(dev): the connect succeeds or raises
Connect(ok) ==
    /\ pc = "connecting"
    /\ pc' = IF ok THEN "subscribing" ELSE Unwind(pc)
    /\ sess' = [sess EXCEPT !.connected = ok, !.failed = ~ok]
    /\ UNCHANGED <<stream, pos, logger, samples, file, loop, host, twin>>

\* await cli.start_notify(UART_TX, logger.on_notify) succeeds or raises
Subscribe(ok) ==
    /\ pc = "subscribing"
    /\ ok => sess.connected
    /\ pc' = IF ok THEN "logging" ELSE Unwind(pc)
    /\ sess' = [sess EXCEPT !.subscribed = ok, !.began = ok, !.failed = ~ok]
    /\ UNCHANGED <<stream, pos, logger, samples, file, loop, host, twin>>

\* one second of the sleep goes by
Tick ==
    /\ pc = "logging"
    /\ sess.elapsed < SleepFor(sess)
    /\ sess' = [sess EXCEPT !.elapsed = @ + 1,
                            !.waited = @ \/ ~sess.connected]
    /\ UNCHANGED <<stream, pos, logger, samples, pc, file, loop, host, twin>>

\* the sleep returns
Wake ==
    /\ pc = "logging"
    /\ sess.elapsed = SleepFor(sess)
    /\ pc' = "leaving"
    /\ sess' = [sess EXCEPT !.left = sess.elapsed]
    /\ UNCHANGED <<stream, pos, logger, samples, file, loop, host, twin>>

\* the task is cancelled (Ctrl-C under asyncio.run): CancelledError is thrown
\* into the await run_logger is at
Cancel ==
    /\ pc \in {"connecting", "subscribing", "logging"}
    /\ pc' = Unwind(pc)
    /\ sess' = [sess EXCEPT !.cancelled = TRUE]
    /\ UNCHANGED <<stream, pos, logger, samples, file, loop, host, twin>>

\* the link is lost; run_logger registers no callback for it
Drop ==
    /\ pc \in {"subscribing", "logging"}
    /\ sess.connected
    /\ sess' = [sess EXCEPT !.connected = FALSE]
    /\ UNCHANGED <<stream, pos, logger, samples, pc, file, loop, host, twin>>

\* BleakClient.__aexit__: the disconnect ends, or raises
Leave(ok) ==
    /\ pc = "leaving"
    /\ pc' = "closing"
    /\ sess' = [sess EXCEPT !.connected = FALSE, !.subscribed = FALSE,
                            !.failed = @ \/ ~ok]
    /\ UNCHANGED <<stream, pos, logger, samples, file, loop, host, twin>>

\* how run_logger ends once logger.close() has left the logger as st. In
\* log_velostat_sensor_h5_BLE.py the finally clause ends and the exception in
\* flight, if any, goes on to the caller; in combined_sensor_logger_viz.py the
\* clause ends with "return logger.h5_path", which discards it, so only an
\* exception of close() itself, raised before the return, gets out
Outcome(s, st) ==
    IF st.raised THEN "raised"
    ELSE IF s.variant = "combined" THEN "returned"
    ELSE IF s.failed \/ s.cancelled THEN "raised"
    ELSE "returned"

\* the finally clause: logger.close(), and run_logger ends
Finally ==
    /\ pc = "closing"
    /\ logger' = CloseLogger(logger)
    /\ pc' = "closed"
    /\ sess' = [sess EXCEPT !.closes = @ + 1,
                            !.outcome = Outcome(sess, logger')]
    /\ UNCHANGED <<stream, pos, samples, file, loop, host, twin>>

NextSession ==
    \/ \E found \in BOOLEAN : Scan(found)
    \/ \E ok \in BOOLEAN : Connect(ok)
    \/ \E ok \in BOOLEAN : Subscribe(ok)
    \/ \E n \in {PACKET_SIZE, Len(stream) - pos} : Notify(n)
    \/ Tick
    \/ Wake
    \/ Cancel
    \/ Drop
    \/ \E ok \in BOOLEAN : Leave(ok)
    \/ \E step \in FaultSteps : Break(step)
    \/ Finally

SpecSession == InitSession /\ [][NextSession]_vars

---------------------------------------------------------------------------
(* on_notify and close statement by statement, as the event loop runs them *)

LoopStreams ==
    {FrameRun(1, 2), Garbage("lost", 6) \o FrameA, BadChecksumFrame \o FrameC}

InitLoop ==
    /\ stream \in LoopStreams
    /\ pos = 0
    /\ file = NoFile
    /\ \E rows \in 1..MaxChunkRows : logger = NewLogger(rows, 0)
    /\ samples = <<>>
    /\ pc = "logging"
    /\ sess = Subscribed(NewSession("standalone", SLEEP_SECONDS))
    /\ loop = NewLoop(logger)
    /\ host = NewHost
    /\ twin = logger

\* the transport receives the next n bytes and schedules on_notify with them
Receive(n) ==
    /\ pc \in Listening
    /\ n >= 1
    /\ pos + n <= Len(stream)
    /\ LET data == SubSeq(stream, pos + 1, pos + n)
       IN  loop' = [loop EXCEPT
                       !.queue = Append(@, data),
                       !.expect = Append(@, OnNotify(@[Len(@)], data))]
    /\ pos' = pos + n
    /\ UNCHANGED <<stream, logger, samples, pc, file, sess, host, twin>>

\* the loop calls on_notify with the oldest notification: line 128 runs
NotifyBegin ==
    /\ pc \in Listening
    /\ LoopIdle(loop)
    /\ loop.queue # <<>>
    /\ logger' = Extended(logger, Head(loop.queue))
    /\ loop' = [loop EXCEPT
                   !.queue = Tail(@),
                   !.begun = @ + 1,
                   !.running = @ \cup {[op |-> "on_notify", id |-> loop.begun + 1]}]
    /\ UNCHANGED <<stream, pos, samples, pc, file, sess, host, twin>>

\* an on_notify call in progress runs line 129, self._drain(), and returns
NotifyEnd ==
    /\ \E e \in loop.running :
           /\ e.op = "on_notify"
           /\ loop' = [loop EXCEPT !.running = @ \ {e}, !.ended = @ + 1]
    /\ logger' = Drain(logger)
    /\ samples' = samples \o logger'.emitted
    /\ sess' = Noted(sess, logger')
    /\ UNCHANGED <<stream, pos, pc, file, host, twin>>

\* run_logger is resumed and reaches logger.close(): line 64 runs
CloseBegin ==
    /\ pc = "logging"
    /\ LoopIdle(loop)
    /\ logger' = FinalFlush(logger)
    /\ pc' = "closing"
    /\ loop' = [loop EXCEPT !.running = @ \cup {[op |-> "close", id |-> 0]}]
    /\ UNCHANGED <<stream, pos, samples, file, sess, host, twin>>

\* the close in progress runs line 65, self.h5.close(), and returns
CloseEnd ==
    /\ \E e \in loop.running :
           /\ e.op = "close"
           /\ loop' = [loop EXCEPT !.running = @ \ {e}]
    /\ logger' = Release(logger)
    /\ pc' = "closed"
    /\ sess' = [sess EXCEPT !.closes = @ + 1]
    /\ UNCHANGED <<stream, pos, samples, file, host, twin>>

NextLoop ==
    \/ \E n \in ChunkSizes \cup {Len(stream) - pos} : Receive(n)
    \/ NotifyBegin
    \/ NotifyEnd
    \/ CloseBegin
    \/ CloseEnd

SpecLoop == InitLoop /\ [][NextLoop]_vars

---------------------------------------------------------------------------
(* Sessions run one after the other in one working directory *)

FileStreams == {FrameA, Garbage("zero", 2) \o FrameB}

\* the sessions that have appended rows to the file named p: those recorded
\* on the host, and the session in hand once its dataset has grown
WritersOf(p) ==
    host.files[p].writers
    \cup (IF sess.id > 0 /\ sess.path = p /\ Len(logger.ds) > Len(file.rows)
          THEN {sess.id} ELSE {})

\* the files once the session in hand has flushed and closed its dataset
Saved ==
    IF sess.id = 0 THEN host.files
    ELSE [host.files EXCEPT ![sess.path] =
             [rows |-> logger.ds, cols |-> logger.ds_cols,
              writers |-> WritersOf(sess.path)]]

InitFiles ==
    /\ stream \in FileStreams
    /\ pos = 0
    /\ file = NoFile
    /\ logger = NoLogger
    /\ samples = <<>>
    /\ pc = "closed"
    /\ sess = NewSession("standalone", SLEEP_SECONDS)
    /\ loop = NewLoop(logger)
    /\ host = NewHost
    /\ twin = logger

\* the wall clock moves on by one tick
ClockTick ==
    /\ host.clock < MaxClock
    /\ host' = [host EXCEPT !.clock = @ + 1]
    /\ UNCHANGED <<stream, pos, logger, samples, pc, file, sess, loop, twin>>

\* the program is run again for one side: the logger opens the file that
\* now_fname names, with mode "a", and the device is subscribed
StartSession(side) ==
    /\ pc = "closed"
    /\ sess.id < MaxSessions
    /\ LET p == now_fname(side, host.clock)
       IN  /\ host' = [host EXCEPT !.files = Saved]
           /\ file' = [rows |-> Saved[p].rows, cols |-> Saved[p].cols]
           /\ logger' = OpenLogger(Saved[p].rows, Saved[p].cols, 1, 0)
           /\ sess' = [Subscribed(NewSession("standalone", SLEEP_SECONDS))
                          EXCEPT !.id = sess.id + 1, !.path = p]
    /\ pos' = 0
    /\ samples' = <<>>
    /\ pc' = "logging"
    /\ UNCHANGED <<stream, loop, twin>>

NextFiles ==
    \/ ClockTick
    \/ \E side \in Sides : StartSession(side)
    \/ \E n \in {PACKET_SIZE, Len(stream) - pos} : Notify(n)
    \/ Close

SpecFiles == InitFiles /\ [][NextFiles]_vars

---------------------------------------------------------------------------
(* The two copies of the class, fed the same calls *)

CopyStreams ==
    {Garbage("ramp", 3) \o FrameRun(0, 2),
     BadHeaderFrame \o BadChecksumFrame \o FrameC,
     StaleStart \o EchoFrame}

\* the sizes of the notifications the two copies are fed
CopySizes == {PACKET_SIZE, 244}

InitCopies ==
    /\ stream \in CopyStreams
    /\ pos = 0
    /\ file \in {NoFile} \cup {f \in Files : Len(f.rows) = 1}
    /\ \E rows \in 1..MaxChunkRows :
           /\ logger = OpenLogger(file.rows, file.cols, rows, 0)
           /\ twin = VizOpenLogger(file.rows, file.cols, rows, 0)
    /\ samples = <<>>
    /\ pc = "logging"
    /\ sess = Subscribed(NewSession("standalone", SLEEP_SECONDS))
    /\ loop = NewLoop(logger)
    /\ host = NewHost

\* both loggers get the same notification
BothNotify(n) ==
    /\ pc = "logging"
    /\ n >= 1
    /\ pos + n <= Len(stream)
    /\ LET data == SubSeq(stream, pos + 1, pos + n)
       IN  /\ logger' = OnNotify(logger, data)
           /\ twin' = VizOnNotify(twin, data)
    /\ samples' = samples \o logger'.emitted
    /\ pos' = pos + n
    /\ sess' = Noted(sess, logger')
    /\ UNCHANGED <<stream, pc, file, loop, host>>

\* both loggers are closed
BothClose ==
    /\ pc = "logging"
    /\ logger' = CloseLogger(logger)
    /\ twin' = VizCloseLogger(twin)
    /\ pc' = "closed"
    /\ sess' = [sess EXCEPT !.closes = @ + 1]
    /\ UNCHANGED <<stream, pos, samples, file, loop, host>>

\* the HDF5 library starts to fail, or stops failing, under both loggers
BothFault(step) ==
    /\ pc = "logging"
    /\ logger.fault # step
    /\ step # "none" => ~logger.raised
    /\ logger' = [logger EXCEPT !.fault = step]
    /\ twin' = [twin EXCEPT !.fault = step]
    /\ UNCHANGED <<stream, pos, samples, pc, file, sess, loop, host>>

NextCopies ==
    \/ \E n \in CopySizes \cup {Len(stream) - pos} : BothNotify(n)
    \/ BothClose
    \/ \E step \in FaultSteps \cup {"none"} : BothFault(step)

SpecCopies == InitCopies /\ [][NextCopies]_vars

---------------------------------------------------------------------------
(* _drain one iteration of its while loop at a time *)

DrainStreams ==
    {Garbage("ramp", 3) \o FrameRun(0, 2),
     BadChecksumFrame \o FrameC,
     StaleStart \o EchoFrame}

InitDrain ==
    /\ stream \in DrainStreams
    /\ pos = 0
    /\ file = NoFile
    /\ \E rows \in 1..MaxChunkRows : logger = NewLogger(rows, 0)
    /\ samples = <<>>
    /\ pc = "logging"
    /\ sess = Subscribed(NewSession("standalone", SLEEP_SECONDS))
    /\ loop = NewLoop(logger)
    /\ host = NewHost
    /\ twin = logger

\* on_notify is called with the next n bytes: lines 128 and 95 run
DrainBegin(n) ==
    /\ pc = "logging"
    /\ n >= 1
    /\ pos + n <= Len(stream)
    /\ logger' = DrainStart(Extended(logger, SubSeq(stream, pos + 1, pos + n)))
    /\ pos' = pos + n
    /\ pc' = "draining"
    /\ UNCHANGED <<stream, samples, file, sess, loop, host, twin>>

\* the loop test of line 96 holds and the body runs once
DrainStep ==
    /\ pc = "draining"
    /\ ~logger.raised
    /\ Len(logger.buffer) >= PACKET_SIZE
    /\ logger' = DrainIter(logger)
    /\ UNCHANGED <<stream, pos, samples, pc, file, sess, loop, host, twin>>

\* the loop is left, by its test or by an exception, and on_notify returns
DrainEnd ==
    /\ pc = "draining"
    /\ logger.raised \/ Len(logger.buffer) < PACKET_SIZE
    /\ logger' = Trailing(logger)
    /\ samples' = samples \o logger'.emitted
    /\ sess' = Noted(sess, logger')
    /\ pc' = "logging"
    /\ UNCHANGED <<stream, pos, file, loop, host, twin>>

NextDrain ==
    \/ \E n \in CopySizes \cup {Len(stream) - pos} : DrainBegin(n)
    \/ DrainStep
    \/ DrainEnd
    \/ \E step \in FaultSteps : Break(step)
    \/ Heal
    \/ Close

\* a call in progress goes on: the interpreter runs the next statement
SpecDrain ==
    /\ InitDrain
    /\ [][NextDrain]_vars
    /\ WF_vars(DrainStep)
    /\ WF_vars(DrainEnd)

---------------------------------------------------------------------------
(* What the claims speak of, stated from the frame layout *)

\* the 216-byte window that starts off bytes into buf
Window(buf, off) == SubSeq(buf, off + 1, off + PACKET_SIZE)

\* header in {0x5AA5, 0x015A}, length field 216, trailing field equal to the
\* sum of bytes[0:214] modulo 65536
ValidFrame(w) ==
    /\ w[1] + 256 * w[2] \in {23205, 346}
    /\ w[4] + 256 * w[5] = 216
    /\ w[215] + 256 * w[216] = SumFrom(w, 1, 214) % 65536

\* the 208 payload bytes of a window
PayloadOf(w) == SubSeq(w, 7, 214)

\* columns 1..208 of a row
ReadingsOf(row) == SubSeq(row, 2, Len(row))

\* the log of the last on_notify call
Events == logger.events
NumEvents == Len(logger.events)

\* the offset at which the iteration after the i-th began, or at which the
\* loop stopped
NextOff(i) ==
    IF i < NumEvents THEN Events[i + 1].off
    ELSE Len(logger.lastBuf) - Len(logger.leftover)

\* the number of samples the call had produced before its i-th iteration
SamplesBefore(i) == IF i = 1 THEN 0 ELSE Events[i - 1].n

\* buf is n valid frames back to back
FramesOnly(buf, n) ==
    /\ Len(buf) = n * PACKET_SIZE
    /\ \A i \in 0..(n - 1) : ValidFrame(Window(buf, i * PACKET_SIZE))

---------------------------------------------------------------------------
(* C1, C2: the byte stream across notifications *)

\* the readings of the samples a fresh logger produces when the whole of
\* bytes arrives in a single on_notify call
OneShotReadings(bytes) ==
    LET e == OnNotify(NewLogger(1, 0), bytes).emitted
    IN  [i \in 1..Len(e) |-> ReadingsOf(e[i])]

\* C1: once a stream of N valid back-to-back frames has been delivered, in
\* whatever chunks, the samples produced have the same readings, in the same
\* order, as the samples of a single on_notify call with the whole stream.
C1_ChunkBoundaryIndependence ==
    (/\ pos = Len(stream)
     /\ \E n \in 1..(MaxFrames + 1) : FramesOnly(stream, n))
    => [i \in 1..Len(samples) |-> ReadingsOf(samples[i])] = OneShotReadings(stream)

\* C2: while the session runs, the bytes that were left in the buffer when
\* extraction stopped (fewer than 216) are still in the buffer, unchanged and
\* in order, after the on_notify call.
C2_LeftoverStaysBuffered ==
    pc = "logging" => logger.buffer = logger.leftover

---------------------------------------------------------------------------
(* C3, C4, C5: what happens to the window at the head of the buffer *)

\* C3: the window at the head of the buffer is accepted (one sample is
\* produced and its 216 bytes are removed) if and only if its header is
\* 0x5AA5 or 0x015A, its length field is 216 and its trailing field is the
\* sum of bytes[0:214] modulo 65536.
C3_AcceptedIffValid ==
    \A i \in 1..NumEvents :
        LET e == Events[i]
        IN  /\ e.ok <=> ValidFrame(Window(logger.lastBuf, e.off))
            /\ e.ok => /\ NextOff(i) = e.off + PACKET_SIZE
                       /\ e.n = SamplesBefore(i) + 1

\* a window with the right length and checksum but another header
HeaderOnlyBad(w) ==
    /\ w[1] + 256 * w[2] \notin {23205, 346}
    /\ w[4] + 256 * w[5] = 216
    /\ w[215] + 256 * w[216] = SumFrom(w, 1, 214) % 65536

\* a window with a good header and checksum whose length field is not 216
LengthOnlyBad(w) ==
    /\ w[1] + 256 * w[2] \in {23205, 346}
    /\ w[4] + 256 * w[5] # 216
    /\ w[215] + 256 * w[216] = SumFrom(w, 1, 214) % 65536

\* a window with a good header and length whose checksum does not match
ChecksumOnlyBad(w) ==
    /\ w[1] + 256 * w[2] \in {23205, 346}
    /\ w[4] + 256 * w[5] = 216
    /\ w[215] + 256 * w[216] # SumFrom(w, 1, 214) % 65536

\* one call has rejected a window for its header alone, one for its length
\* alone, one for its checksum alone, and has accepted a window
C3_Witness ==
    /\ \E i \in 1..NumEvents : Events[i].ok
    /\ \E i \in 1..NumEvents :
           ~Events[i].ok /\ HeaderOnlyBad(Window(logger.lastBuf, Events[i].off))
    /\ \E i \in 1..NumEvents :
           ~Events[i].ok /\ LengthOnlyBad(Window(logger.lastBuf, Events[i].off))
    /\ \E i \in 1..NumEvents :
           ~Events[i].ok /\ ChecksumOnlyBad(Window(logger.lastBuf, Events[i].off))

\* w is a frame built from its own header, type bytes and payload with
\* length 216 and the correct checksum, under an accepted header
WellBuilt(w) ==
    /\ w[1] + 256 * w[2] \in {23205, 346}
    /\ w[4] + 256 * w[5] = 216
    /\ w = MakeFrame(w[1] + 256 * w[2], w[3], w[6], PayloadOf(w))

\* C4: a frame built with an accepted header, length 216 and the correct
\* checksum is accepted, and its sample is a row of 209 values: a clock
\* reading in column 0, then the 208 payload bytes in payload order.
C4_PayloadPreserved ==
    \A i \in 1..NumEvents :
        LET e == Events[i]
            w == Window(logger.lastBuf, e.off)
        IN  WellBuilt(w) =>
                /\ e.ok
                /\ e.n >= 1 /\ e.n <= Len(logger.emitted)
                /\ LET row == logger.emitted[e.n]
                   IN  /\ Len(row) = 209
                       /\ row[1] \in Nat /\ row[1] < logger.now
                       /\ \A j \in 1..208 : row[j + 1] = w[6 + j]

\* a call has decoded a well-built frame whose payload bytes are not all equal
C4_Witness ==
    \E i \in 1..NumEvents :
        LET w == Window(logger.lastBuf, Events[i].off)
        IN  /\ WellBuilt(w)
            /\ Events[i].ok
            /\ w[7] # w[8]
            /\ logger.emitted # <<>>

\* C5: a window that fails validation costs exactly one byte: the next
\* window examined (or the place where the loop stops) is one byte further,
\* and no sample is produced for the failed window.
C5_RejectDropsOneByte ==
    \A i \in 1..NumEvents :
        LET e == Events[i]
        IN  ~ValidFrame(Window(logger.lastBuf, e.off)) =>
                /\ ~e.ok
                /\ NextOff(i) = e.off + 1
                /\ e.n = SamplesBefore(i)

\* one call has rejected windows on each of the three failure paths and
\* retried one byte further each time
C5_Witness ==
    \A kind \in {"header", "length", "checksum"} :
        \E i \in 1..(NumEvents - 1) :
            LET w == Window(logger.lastBuf, Events[i].off)
            IN  /\ ~Events[i].ok
                /\ Events[i + 1].off = Events[i].off + 1
                /\ IF kind = "header" THEN HeaderOnlyBad(w)
                   ELSE IF kind = "length" THEN LengthOnlyBad(w)
                   ELSE ChecksumOnlyBad(w)

---------------------------------------------------------------------------
(* C6, C7, C8: resynchronisation and runs of frames within one call *)

\* the call's buffer was k bytes followed by one valid frame
GarbageThenFrame(k) ==
    /\ Len(logger.lastBuf) = k + PACKET_SIZE
    /\ ValidFrame(Window(logger.lastBuf, k))

\* the call rejected k windows, one byte apart, then accepted the frame at
\* offset k, and produced that frame's sample and no other
ResyncedAfter(k) ==
    /\ logger.sync_errors = k
    /\ NumEvents = k + 1
    /\ \A i \in 1..k : ~Events[i].ok /\ Events[i].off = i - 1
    /\ Events[k + 1].ok /\ Events[k + 1].off = k
    /\ Len(logger.emitted) = 1
    /\ ReadingsOf(logger.emitted[1]) = PayloadOf(Window(logger.lastBuf, k))

\* C6 as claimed: for every k, a buffer of k arbitrary bytes followed by one
\* valid frame yields exactly that frame's sample after exactly k discarded
\* bytes.
C6_ResyncBoundAnyGarbage ==
    \A k \in 0..MaxGarbage : GarbageThenFrame(k) => ResyncedAfter(k)

\* no 216-byte window that starts inside the first k bytes is a valid frame
NoFrameStartsIn(k) ==
    \A j \in 0..(k - 1) :
        j + PACKET_SIZE <= Len(logger.lastBuf) => ~ValidFrame(Window(logger.lastBuf, j))

\* C6 amended: for every k, a buffer of k garbage bytes followed by one valid
\* frame, where no window starting inside the garbage is itself a valid frame,
\* yields exactly that frame's sample after exactly k discarded bytes.
C6_ResyncBound ==
    \A k \in 0..MaxGarbage :
        (GarbageThenFrame(k) /\ NoFrameStartsIn(k)) => ResyncedAfter(k)

\* a call has resynchronised over at least one garbage byte
C6_Witness ==
    \E k \in 1..MaxGarbage :
        GarbageThenFrame(k) /\ NoFrameStartsIn(k) /\ ResyncedAfter(k)

\* the positions at which two windows differ
DiffAt(v, w) == {j \in 1..PACKET_SIZE : v[j] # w[j]}

\* the call's buffer was five 0x00 bytes, a valid frame A, a copy of A with
\* one payload byte changed, and a valid frame B
ResyncScenario ==
    /\ Len(logger.lastBuf) = 5 + 3 * PACKET_SIZE
    /\ \A j \in 1..5 : logger.lastBuf[j] = 0
    /\ ValidFrame(Window(logger.lastBuf, 5))
    /\ ValidFrame(Window(logger.lastBuf, 5 + 2 * PACKET_SIZE))
    /\ LET d == DiffAt(Window(logger.lastBuf, 5),
                       Window(logger.lastBuf, 5 + PACKET_SIZE))
       IN  Cardinality(d) = 1 /\ d \subseteq 7..214

\* C7: in the scenario 5 zero bytes, A, corrupted A, B, exactly two samples
\* are produced, A's then B's, and exactly 5 + 216 = 221 bytes are discarded.
C7_ResyncScenario ==
    ResyncScenario =>
        /\ Len(logger.emitted) = 2
        /\ ReadingsOf(logger.emitted[1]) = PayloadOf(Window(logger.lastBuf, 5))
        /\ ReadingsOf(logger.emitted[2]) =
               PayloadOf(Window(logger.lastBuf, 5 + 2 * PACKET_SIZE))
        /\ logger.sync_errors = 221
        /\ Cardinality({i \in 1..NumEvents : ~Events[i].ok}) = 221

\* the scenario has been ingested, with a corrupted first or last reading
C7_Witness ==
    /\ ResyncScenario
    /\ Len(logger.emitted) = 2
    /\ logger.emitted[1] # logger.emitted[2]

\* the number of whole frames the call's buffer could hold
FrameCount == Len(logger.lastBuf) \div PACKET_SIZE

\* the rows of the dataset followed by the rows still pending
RowsStored == logger.ds \o AsArray(logger.chunk)

\* C8: when the buffer of one on_notify call is several valid frames back to
\* back, the call produces one sample per frame, in stream order, and these
\* are the last rows of the dataset-plus-pending-batch, in the same order.
C8_AllFramesInOrder ==
    (FrameCount >= 2 /\ FramesOnly(logger.lastBuf, FrameCount)) =>
        /\ Len(logger.emitted) = FrameCount
        /\ \A i \in 1..FrameCount :
               ReadingsOf(logger.emitted[i]) =
                   PayloadOf(Window(logger.lastBuf, (i - 1) * PACKET_SIZE))
        /\ Len(RowsStored) >= FrameCount
        /\ SubSeq(RowsStored, Len(RowsStored) - FrameCount + 1, Len(RowsStored))
               = AsArray(logger.emitted)

\* one call has decoded three different frames, with a batch threshold of 2
C8_Witness ==
    /\ FrameCount = 3
    /\ FramesOnly(logger.lastBuf, 3)
    /\ logger.chunk_rows = 2
    /\ Len(logger.emitted) = 3
    /\ Len(logger.chunk) = 1

---------------------------------------------------------------------------
(* C9, C10: the store *)

\* C9: after close() the dataset holds exactly the decoded samples, in
\* insertion order: row i has sample i's timestamp in column 0 and its 208
\* payload values in columns 1..208.
C9_StoreRoundTrip ==
    pc = "closed" => logger.ds = samples

\* C10: a flush of a non-empty batch of b rows grows the dataset from n0 to
\* n0 + b rows, leaves rows 0..n0-1 as they were and holds the batch, as
\* float64 rows and in batch order, in rows n0..n0+b-1; a flush of an empty
\* batch changes nothing.
C10_FlushAppendsBatch ==
    \A k \in 1..Len(logger.flushes) :
        LET f  == logger.flushes[k]
            b  == Len(f.batch)
            n0 == Len(f.before)
        IN  /\ b > 0 =>
                /\ Len(f.after) = n0 + b
                /\ \A i \in 1..n0 : f.after[i] = f.before[i]
                /\ \A i \in 1..b : f.after[n0 + i] = AsFloat64Row(f.batch[i])
            /\ b = 0 => f.after = f.before /\ f.left = <<>>

\* a non-empty batch has been flushed into a dataset that already held rows
C10_Witness ==
    \E k \in 1..Len(logger.flushes) :
        /\ Len(logger.flushes[k].batch) >= 1
        /\ Len(logger.flushes[k].before) >= 1
        /\ Len(logger.flushes[k].after) > Len(logger.flushes[k].before)

\* C11: whatever a notification, a flush (failing or not) or close does to a
\* dataset of 209 columns, it still has 209 columns in every row, it has no
\* fewer rows, and every row it held is still there, unchanged, at its place
C11_RowsOnlyGrow ==
    [][logger.ds_cols = COLUMNS =>
          /\ logger'.ds_cols = COLUMNS
          /\ \A i \in 1..Len(logger'.ds) : Len(logger'.ds[i]) = COLUMNS
          /\ Len(logger'.ds) >= Len(logger.ds)
          /\ \A i \in 1..Len(logger.ds) : logger'.ds[i] = logger.ds[i]]_vars

\* rows were appended twice to a file that already held rows, once by a write
\* that failed after the resize, and the logger was closed
C11_Witness ==
    /\ pc = "closed"
    /\ file.cols = COLUMNS /\ Len(file.rows) >= 1
    /\ Len(samples) >= 2
    /\ Len(logger.ds) >= Len(file.rows) + 3

\* C12: once close() has returned or raised, the file is closed; close() has
\* made exactly one flush, on the file while it was still open; unless that
\* flush raised, the pending batch is in the dataset, behind the rows it held,
\* and no batch is left; close() raises exactly when its flush did
C12_CloseFlushesThenReleases ==
    pc = "closed" =>
        /\ ~logger.h5_open
        /\ Len(logger.flushes) = 1
        /\ LET f == logger.flushes[1]
           IN  /\ f.open
               /\ logger.ds = f.after
               /\ logger.raised = f.raised
               /\ ~f.raised =>
                     /\ logger.chunk = <<>>
                     /\ f.after = f.before \o AsArray(f.batch)

\* close() found a pending batch and its flush raised
C12_Witness ==
    /\ pc = "closed"
    /\ ~logger.h5_open
    /\ logger.raised
    /\ Len(logger.flushes[1].batch) >= 1

\* close() found a pending batch and wrote it
C12_WitnessFlushed ==
    /\ pc = "closed"
    /\ ~logger.raised
    /\ Len(logger.flushes[1].batch) >= 1
    /\ Len(logger.ds) > Len(logger.flushes[1].before)

\* C14: a flush that fails ends the logging: once an on_notify call has
\* raised out of _flush_chunk, no further notification is processed (and so
\* none can run the failed flush again); stated for files whose dataset fits,
\* where a flush raises only because the disk or the library fails
C14_FlushFailureIsFatal ==
    file.cols \in {0, COLUMNS} => ~(sess.raised /\ sess.after)

\* C15: a file whose dataset has another column count than 209 is rejected
\* when it is opened: no logger on such a file ever takes a notification, and
\* the dataset keeps exactly the rows it had
C15_MismatchRejectedAtOpen ==
    file.cols \notin {0, COLUMNS} =>
        /\ pos = 0
        /\ logger.ds = file.rows

\* C16: a session that opens a file whose 209-column dataset holds R rows and
\* appends K samples without a failing flush leaves, once closed, exactly R + K
\* rows: the R old rows unchanged, then the K samples in the order appended
C16_ReopenAppends ==
    (/\ pc = "closed"
     /\ file.cols = COLUMNS
     /\ ~sess.raised /\ ~logger.raised) =>
        LET R == Len(file.rows)
            K == Len(samples)
        IN  /\ Len(logger.ds) = R + K
            /\ SubSeq(logger.ds, 1, R) = file.rows
            /\ SubSeq(logger.ds, R + 1, R + K) = AsArray(samples)

\* two samples were appended to a dataset that held two rows
C16_Witness ==
    /\ pc = "closed"
    /\ file.cols = COLUMNS
    /\ ~sess.raised /\ ~logger.raised
    /\ Len(file.rows) = 2
    /\ Len(samples) >= 2
    /\ Len(logger.ds) = 2 + Len(samples)

\* C13: a run_logger call that has constructed its logger calls
\* logger.close() exactly once, on the way out and not before: whichever way
\* it leaves the try block (sleep over, cancelled, connect or subscribe or
\* disconnect raising) it is in, or headed for, the finally clause, and when
\* it has ended the close has run once, with one final flush, and the file is
\* closed; a call that found no device opened nothing and closes nothing
C13_ClosedOnceOnEveryExit ==
    /\ pc \in {"scanning", "absent"} => sess.closes = 0 /\ ~logger.h5_open
    /\ pc \in {"connecting", "subscribing", "logging", "leaving", "closing"} =>
           sess.closes = 0 /\ logger.h5_open
    /\ (sess.failed \/ sess.cancelled \/ sess.left >= 0) =>
           pc \in {"leaving", "closing", "closed"}
    /\ pc = "closed" =>
           /\ sess.closes = 1
           /\ ~logger.h5_open
           /\ Len(logger.flushes) = 1 /\ logger.flushes[1].open

\* a session was cancelled while logging, after an on_notify call had raised,
\* and has closed its logger
C13_Witness ==
    /\ pc = "closed"
    /\ sess.cancelled /\ sess.subscribed = FALSE /\ sess.raised
    /\ sess.closes = 1

\* the exits by a failed connect, a failed subscribe and the end of the sleep
C13_WitnessFailedConnect ==
    pc = "closed" /\ sess.failed /\ ~sess.raised /\ pos = 0 /\ sess.closes = 1

C13_WitnessSleepOver ==
    pc = "closed" /\ sess.left >= 0 /\ ~sess.failed /\ sess.closes = 1

\* C17: when the link is lost the session goes to its close at once: no
\* second of the sleep goes by after the disconnection
C17_DropEndsLogging ==
    ~sess.waited

\* C18: the session logs for the --duration option d: while it is in the sleep
\* no more than d seconds have gone by, and when the sleep returns exactly d
\* seconds have
C18_SleepsForDuration ==
    /\ pc = "logging" => sess.elapsed <= sess.duration
    /\ sess.left >= 0 => sess.left = sess.duration

\* C19: run_logger of combined_sensor_logger_viz.py with duration 0, or
\* cancelled before start_notify has returned, opens the file, closes it, and
\* leaves a dataset of 0 rows, whatever the transport delivered
C19_ZeroDurationZeroRows ==
    (/\ sess.variant = "combined"
     /\ pc = "closed"
     /\ sess.duration = 0 \/ (sess.cancelled /\ ~sess.began)) =>
        /\ sess.closes = 1
        /\ ~logger.h5_open
        /\ logger.ds = <<>>

\* C20: at most one call of on_notify or close is in progress at any time;
\* whenever none is, the logger (buffer, pending batch, dataset and all) is
\* what processing the notifications handled so far, whole and in the order
\* received, makes it, and close works on that state
C20_OneAtATime ==
    /\ Cardinality(loop.running) <= 1
    /\ loop.ended <= loop.begun /\ loop.begun <= loop.ended + 1
    /\ (loop.running = {} /\ pc = "logging") =>
           logger = loop.expect[loop.ended + 1]
    /\ pc = "closed" =>
           logger = CloseLogger(loop.expect[loop.ended + 1])

\* three notifications or more were handled one after the other, a sample was
\* decoded, and the logger was closed
C20_Witness ==
    /\ pc = "closed"
    /\ loop.ended >= 3
    /\ Len(samples) >= 1

\* a notification arrived while on_notify was in progress
C20_WitnessWaiting ==
    /\ loop.running # {}
    /\ Len(loop.queue) >= 2

\* C21: the pending batch never holds more than chunk_rows rows, and every
\* flush that returns leaves it empty; stated for files whose dataset fits
C21_BatchBounded ==
    file.cols \in {0, COLUMNS} =>
        /\ Len(logger.chunk) <= logger.chunk_rows
        /\ \A i \in 1..Len(logger.flushes) :
               ~logger.flushes[i].raised => logger.flushes[i].left = <<>>

\* C22: a flush clears the pending batch only after its rows are synchronized
\* to the file: no flush that has cleared a non-empty batch has raised
C22_SyncBeforeClear ==
    \A i \in 1..Len(logger.flushes) :
        LET f == logger.flushes[i]
        IN  (f.batch # <<>> /\ f.left = <<>>) => ~f.raised

\* C23: a window is tested for its header first, then its length, then its
\* checksum: every rejected window whose header is not an accepted sentinel
\* is rejected by the header test, whatever its length and checksum fields
\* are, and the length test rejects only windows whose header is accepted
C23_HeaderTestedFirst ==
    \A i \in 1..NumEvents :
        LET w == Window(logger.lastBuf, Events[i].off)
            head == w[1] + 256 * w[2]
        IN  /\ head \notin HEADERS => Events[i].why = "header"
            /\ Events[i].why = "length" => head \in HEADERS

\* C24: no file of the working directory is written by two sessions: at
\* most one session has appended rows to any one file
C24_OneFilePerSession ==
    \A p \in Paths : Cardinality(WritersOf(p)) <= 1

\* C25: when the connect, the subscription or the disconnect has raised,
\* run_logger closes the logger and then raises to its caller, in both
\* programs
C25_TransportErrorReachesCaller ==
    (pc = "closed" /\ sess.failed) =>
        /\ sess.closes = 1
        /\ sess.outcome = "raised"

\* the rows without their timestamp column
SansTime(rows) == [i \in 1..Len(rows) |-> ReadingsOf(rows[i])]

\* C26: fed the same on_notify calls and then close(), under the same file
\* and the same failures, the class of log_velostat_sensor_h5_BLE.py and its
\* copy in combined_sensor_logger_viz.py hold, after every call, the same
\* buffer, the same pending batch and the same dataset rows (timestamps
\* aside), and have raised or not alike
C26_CopiesAgree ==
    /\ twin.buffer = logger.buffer
    /\ SansTime(twin.chunk) = SansTime(logger.chunk)
    /\ SansTime(twin.ds) = SansTime(logger.ds)
    /\ twin.raised = logger.raised
    /\ twin.h5_open = logger.h5_open

\* both copies have dropped bytes, stored two rows or more and been closed
C26_Witness ==
    /\ pc = "closed"
    /\ ~twin.h5_open
    /\ Len(twin.ds) >= 2
    /\ Len(stream) > Len(samples) * PACKET_SIZE
    /\ Len(twin.ds) = Len(logger.ds)

\* C27: a frame yields one sample at most, also when the flush raises in
\* _process_packet before its bytes are removed: the samples emitted never
\* outnumber the frames received; stated for files whose dataset fits
C27_DecodedOnce ==
    file.cols \in {0, COLUMNS} =>
        Len(samples) * PACKET_SIZE <= pos

\* C28: after every on_notify call that returns normally, the bytes received
\* so far are 216 for each sample emitted, plus the bytes dropped one at a time
\* in resync, plus the trailing bytes cleared, plus the bytes still in the
\* buffer; stated for files whose dataset fits
C28_BytesConserved ==
    (pc \in Listening /\ ~logger.raised /\ file.cols \in {0, COLUMNS}) =>
        pos = PACKET_SIZE * Len(samples) + sess.dropped + sess.cleared
              + Len(logger.buffer)

\* C29: _drain terminates: every iteration of its loop that runs to its end
\* removes 1 or 216 bytes from the buffer, the loop has run at most as many
\* iterations as the buffer held bytes when it began, and every call of
\* _drain that has begun comes to its end
C29_DrainTerminates ==
    /\ [][(pc = "draining" /\ pc' = "draining" /\ ~logger'.raised) =>
              /\ Len(logger.buffer) - Len(logger'.buffer) \in {1, PACKET_SIZE}
              /\ Len(logger'.events) = Len(logger.events) + 1
              /\ Len(logger'.events) <= logger'.len0]_vars
    /\ (pc = "draining") ~> (pc = "logging")

\* a call of _drain has ended after iterations that removed one byte and
\* iterations that removed a frame
C29_Witness ==
    /\ pc = "logging"
    /\ ~logger.raised
    /\ \E i, j \in 1..Len(logger.events) :
           logger.events[i].ok /\ ~logger.events[j].ok

====
